---- MODULE Spec2Model ----
(***************************************************************************)
(* Model of the per-message handler of src/src/index.ts (lines 209-389):   *)
(* command parsing, model selection, LLM invocation, bracket-scan          *)
(* extraction of the JSON array, the per-record dispatch loop and the      *)
(* summary.  The file also holds an earlier version of the handler (lines  *)
(* 48-156); the model follows the later one, which the registry and the    *)
(* per-record try/catch belong to.                                         *)
(*                                                                         *)
(* Strings are sequences of one-character strings.  An LLM response text   *)
(* is a sequence of lexemes: the characters "[", "]", "," and " " stand    *)
(* for themselves, every other lexeme is a chunk of text that holds no     *)
(* bracket (a prose letter, a number literal, a string literal, the head   *)
(* of an object literal), so that indexOf / lastIndexOf / substring see    *)
(* the brackets exactly where the text has them.                           *)
(***************************************************************************)
EXTENDS Integers, Sequences, FiniteSets, TLC

(***************************************************************************)
(* Bounds of the model.                                                    *)
(***************************************************************************)
\* longest response text enumerated lexeme by lexeme
MaxTextLen == 3
\* longest array of records enumerated element by element
MaxRecords == 2

(***************************************************************************)
(* JavaScript values.                                                      *)
(***************************************************************************)
Undef == [ty |-> "undefined"]
Null == [ty |-> "null"]
Num(n) == [ty |-> "number", n |-> n]
Str(s) == [ty |-> "string", s |-> s]
Arr(a) == [ty |-> "array", a |-> a]
Obj(q, o, c, e) ==
  [ty |-> "object", question |-> q, options |-> o, correctOptionIndex |-> c,
   explanation |-> e]

\* ToBoolean: undefined, null, 0 and "" are falsy, arrays and objects truthy
Truthy(v) ==
  CASE v.ty = "undefined" -> FALSE
    [] v.ty = "null" -> FALSE
    [] v.ty = "number" -> v.n # 0
    [] v.ty = "string" -> v.s # <<>>
    [] OTHER -> TRUE

\* property read v.name: a TypeError on null and undefined, undefined on a
\* value that has no such property
CanRead(v) == v.ty \notin {"undefined", "null"}
Field(v, name) ==
  IF v.ty = "object"
  THEN CASE name = "question" -> v.question
         [] name = "options" -> v.options
         [] name = "correctOptionIndex" -> v.correctOptionIndex
         [] name = "explanation" -> v.explanation
  ELSE Undef

(***************************************************************************)
(* String.prototype / Array.prototype helpers, 0-based as in JavaScript.   *)
(***************************************************************************)
Min(a, b) == IF a < b THEN a ELSE b
Max(a, b) == IF a > b THEN a ELSE b

\* text.indexOf(c): the first 0-based index of c, -1 when absent
IndexOf(t, c) ==
  IF \E i \in 1..Len(t) : t[i] = c
  THEN (CHOOSE i \in 1..Len(t) : t[i] = c /\ \A j \in 1..(i - 1) : t[j] # c) - 1
  ELSE -1

\* text.lastIndexOf(c)
LastIndexOf(t, c) ==
  IF \E i \in 1..Len(t) : t[i] = c
  THEN (CHOOSE i \in 1..Len(t) :
          t[i] = c /\ \A j \in (i + 1)..Len(t) : t[j] # c) - 1
  ELSE -1

\* text.substring(a, b): both clamped to [0, length], swapped when a > b
Substring(t, a, b) ==
  LET ca == Min(Max(a, 0), Len(t))
      cb == Min(Max(b, 0), Len(t))
  IN  SubSeq(t, Min(ca, cb) + 1, Max(ca, cb))

\* s.slice(0, n) for n >= 0, on a string or an array
SliceTo(s, n) == SubSeq(s, 1, Min(n, Len(s)))

\* text.startsWith(prefix)
StartsWith(t, prefix) ==
  /\ Len(t) >= Len(prefix)
  /\ SubSeq(t, 1, Len(prefix)) = prefix

\* text.includes(sub)
Includes(t, sub) ==
  \E i \in 0..(Len(t) - Len(sub)) : SubSeq(t, i + 1, i + Len(sub)) = sub

RECURSIVE SplitFrom(_, _, _)
\* the pieces of t from position i on, cur being the piece under construction
SplitFrom(t, i, cur) ==
  IF i > Len(t) THEN <<cur>>
  ELSE IF t[i] = " " THEN <<cur>> \o SplitFrom(t, i + 1, <<>>)
  ELSE SplitFrom(t, i + 1, Append(cur, t[i]))

\* text.split(" "): always at least one piece
Split(t) == SplitFrom(t, 1, <<>>)

RECURSIVE Join(_, _)
\* parts.join(sep)
Join(parts, sep) ==
  IF parts = <<>> THEN <<>>
  ELSE IF Len(parts) = 1 THEN parts[1]
  ELSE parts[1] \o sep \o Join(Tail(parts), sep)

\* the letters toLowerCase changes, and what it changes them to
UpperLetters ==
  <<"A", "B", "C", "D", "E", "F", "G", "H", "I", "J", "K", "L", "M", "N", "O",
    "P", "Q", "R", "S", "T", "U", "V", "W", "X", "Y", "Z">>
LowerLetters ==
  <<"a", "b", "c", "d", "e", "f", "g", "h", "i", "j", "k", "l", "m", "n", "o",
    "p", "q", "r", "s", "t", "u", "v", "w", "x", "y", "z">>

UpperSet == {UpperLetters[i] : i \in 1..Len(UpperLetters)}

LowerChar(c) ==
  IF c \in UpperSet
  THEN LowerLetters[CHOOSE i \in 1..Len(UpperLetters) : UpperLetters[i] = c]
  ELSE c

\* s.toLowerCase()
ToLowerCase(s) == [i \in 1..Len(s) |-> LowerChar(s[i])]

(***************************************************************************)
(* JSON.parse on a lexeme sequence.                                        *)
(*   value ::= scalar | "[" [ value { "," value } ] "]"                    *)
(*           | head "}" | head value "}"                                   *)
(* A head lexeme is the text of an object literal up to its "options"      *)
(* member: it carries the question, correctOptionIndex and explanation     *)
(* members; the value that follows it, when there is one, is the value of  *)
(* "options".  White space is allowed around every value and separator.    *)
(***************************************************************************)
ScalarLexemes == {"7", "null", "sA", "sB", "sAB", "sLong"}
HeadLexemes == {"{Q0e", "{R5", "{_0", "{7_0", "{Qn", "{Q'1'", "{L0"}

\* a text of n characters, the first unlike the others
LongText(n) == [i \in 1..n |-> IF i = 1 THEN "L" ELSE "x"]

LexValue(lex) ==
  CASE lex = "7" -> Num(7)
    [] lex = "null" -> Null
    [] lex = "sA" -> Str(<<"A">>)
    [] lex = "sB" -> Str(<<"B">>)
    [] lex = "sAB" -> Str(<<"A", "B">>)
    [] lex = "sLong" -> Str(LongText(101))

\* the object a head lexeme opens, its "options" member being o
HeadObject(lex, o) ==
  CASE lex = "{Q0e" -> Obj(Str(<<"Q">>), o, Num(0), Str(<<"e">>))
    [] lex = "{R5" -> Obj(Str(<<"R">>), o, Num(5), Undef)
    [] lex = "{_0" -> Obj(Undef, o, Num(0), Undef)
    [] lex = "{7_0" -> Obj(Num(7), o, Num(0), Str(<<"e">>))
    [] lex = "{Qn" -> Obj(Str(<<"Q">>), o, Null, Str(<<"e">>))
    [] lex = "{Q'1'" -> Obj(Str(<<"Q">>), o, Str(<<"1">>), Undef)
    [] lex = "{L0" -> Obj(Str(LongText(201)), o, Num(0), Undef)

RECURSIVE SkipWs(_, _)
SkipWs(t, i) == IF i <= Len(t) /\ t[i] = " " THEN SkipWs(t, i + 1) ELSE i

ParseFail == [ok |-> FALSE, val |-> Undef, next |-> 0]

RECURSIVE ParseValue(_, _)
RECURSIVE ParseElems(_, _, _)
\* the value that starts at position i (after white space) and the position
\* after it
ParseValue(t, i) ==
  LET j == SkipWs(t, i) IN
  IF j > Len(t) THEN ParseFail
  ELSE IF t[j] \in ScalarLexemes
  THEN [ok |-> TRUE, val |-> LexValue(t[j]), next |-> j + 1]
  ELSE IF t[j] = "["
  THEN LET k == SkipWs(t, j + 1) IN
       IF k <= Len(t) /\ t[k] = "]"
       THEN [ok |-> TRUE, val |-> Arr(<<>>), next |-> k + 1]
       ELSE ParseElems(t, k, <<>>)
  ELSE IF t[j] \in HeadLexemes
  THEN LET k == SkipWs(t, j + 1) IN
       IF k <= Len(t) /\ t[k] = "}"
       THEN [ok |-> TRUE, val |-> HeadObject(t[j], Undef), next |-> k + 1]
       ELSE LET o == ParseValue(t, k)
                m == SkipWs(t, o.next)
            IN  IF o.ok /\ m <= Len(t) /\ t[m] = "}"
                THEN [ok |-> TRUE, val |-> HeadObject(t[j], o.val),
                      next |-> m + 1]
                ELSE ParseFail
  ELSE ParseFail

\* the elements of an array from position i on, acc being those already read
ParseElems(t, i, acc) ==
  LET e == ParseValue(t, i) IN
  IF ~e.ok THEN ParseFail
  ELSE LET k == SkipWs(t, e.next) IN
       IF k > Len(t) THEN ParseFail
       ELSE IF t[k] = ","
       THEN ParseElems(t, k + 1, Append(acc, e.val))
       ELSE IF t[k] = "]"
       THEN [ok |-> TRUE, val |-> Arr(Append(acc, e.val)), next |-> k + 1]
       ELSE ParseFail

\* JSON.parse(text): one value, nothing but white space after it
JsonParse(t) ==
  LET r == ParseValue(t, 1) IN
  IF r.ok /\ SkipWs(t, r.next) = Len(t) + 1
  THEN [ok |-> TRUE, val |-> r.val]
  ELSE [ok |-> FALSE, val |-> Undef]

(***************************************************************************)
(* Response extraction (index.ts 305-328).                                 *)
(***************************************************************************)
\* gptResponse.content: a string, or an array of content blocks
StringContent(t) == [kind |-> "string", text |-> t]
BlocksContent(b) == [kind |-> "blocks", blocks |-> b]

\* lines 307-312 throw when content is an empty array (content[0].type)
ResponseTextThrows(content) ==
  content.kind = "blocks" /\ content.blocks = <<>>

ResponseText(content) ==
  IF content.kind = "string" THEN content.text
  ELSE IF content.blocks[1].type = "text" THEN content.blocks[1].text
  ELSE <<>>

\* as JsonText, but the end index is the last bracket's own index
JsonTextOffByOne(text) ==
  LET firstBracketIndex == IndexOf(text, "[")
      lastBracketIndex == LastIndexOf(text, "]")
  IN  Substring(text, firstBracketIndex, lastBracketIndex)

\* lines 313-318: the text between the first "[" and the last "]"
JsonText(text) ==
  LET firstBracketIndex == IndexOf(text, "[")
      lastBracketIndex == LastIndexOf(text, "]")
  IN  Substring(text, firstBracketIndex, lastBracketIndex + 1)

\* lines 306-328: the inner try block; ok is FALSE when it throws
Extract(content) ==
  IF ResponseTextThrows(content) THEN [ok |-> FALSE, val |-> Undef]
  ELSE JsonParse(JsonText(ResponseText(content)))

(***************************************************************************)
(* Model registry (supportedModels of ./zod_stuff) and command parsing     *)
(* (index.ts 219-250).                                                     *)
(***************************************************************************)
Gpt4o == <<"g", "p", "t", "-", "4", "o">>
O1Preview == <<"o", "1", "-", "p", "r", "e", "v", "i", "e", "w">>
Claude3Opus == <<"c", "l", "a", "u", "d", "e", "-", "3", "-", "o", "p", "u", "s">>
Claude == <<"c", "l", "a", "u", "d", "e">>

supportedModels == <<Gpt4o, O1Preview, Claude3Opus>>

Trigger == <<"/", "m", "a", "k", "e", "_", "m", "c", "q">>

\* as IsCommand, but the trigger may stand anywhere in the text
IsCommandAnywhere(text) == Includes(text, Trigger)

\* line 219
IsCommand(text) == StartsWith(text, Trigger)

\* line 220: numQsStr is undefined when the text holds no space
NumQsStrDefined(text) == Len(Split(text)) >= 2
\* line 221
ModelNameOf(text) == Split(Split(text)[2])[1]
\* as ContentOf, but the pieces are joined with join()'s default separator
ContentOfDefaultJoin(text) ==
  LET parts == Split(text) IN Join(SubSeq(parts, 3, Len(parts)), <<",">>)

\* lines 220 and 222
ContentOf(text) ==
  LET parts == Split(text) IN Join(SubSeq(parts, 3, Len(parts)), <<" ">>)

\* as ModelMatches, but the token need only begin the identifier
ModelMatchesPrefix(model, modelName) ==
  StartsWith(ToLowerCase(model), ToLowerCase(modelName))

\* as ModelMatches, but the two strings are compared as they are
ModelMatchesExact(model, modelName) == model = modelName

\* line 242: the predicate of supportedModels.find
ModelMatches(model, modelName) == ToLowerCase(model) = ToLowerCase(modelName)

\* lines 241-243: the first registry entry that matches, found FALSE for
\* undefined
FindModel(modelName) ==
  LET hits == {i \in 1..Len(supportedModels) :
                 ModelMatches(supportedModels[i], modelName)}
  IN  IF hits = {} THEN [found |-> FALSE, name |-> <<>>]
      ELSE [found |-> TRUE,
            name |-> supportedModels[CHOOSE i \in hits : \A j \in hits : i <= j]]

\* lines 254-264: the client the prompt goes to; temperature in tenths
LlmClient(parsedModelName) ==
  IF Includes(parsedModelName, Claude)
  THEN [provider |-> "anthropic", modelName |-> parsedModelName,
        temperature |-> 7]
  ELSE [provider |-> "openai", modelName |-> parsedModelName,
        temperature |-> IF parsedModelName = O1Preview THEN 10 ELSE 7]

(***************************************************************************)
(* The dispatch loop's per-record computations (index.ts 333-355).         *)
(***************************************************************************)
MaxOptionLen == 100
MaxQuestionLen == 200

\* for (const q of questions): arrays and strings are iterable
Iterable(v) == v.ty \in {"array", "string"}
Elements(v) ==
  IF v.ty = "array" THEN v.a
  ELSE [i \in 1..Len(v.s) |-> Str(<<v.s[i]>>)]
\* questions.length
LengthOf(v) == IF v.ty = "array" THEN Len(v.a) ELSE Len(v.s)

\* v.slice exists on strings and arrays only
HasSlice(v) == v.ty \in {"string", "array"}
Slice(v, n) ==
  IF v.ty = "string" THEN Str(SliceTo(v.s, n)) ELSE Arr(SliceTo(v.a, n))

\* lines 334-335 throw a TypeError: q is null, q.options is neither nullish
\* nor an array, or an option has no slice method
RecordThrows(q) ==
  IF ~CanRead(q) THEN TRUE
  ELSE LET o == Field(q, "options") IN
       IF ~CanRead(o) THEN FALSE
       ELSE IF o.ty # "array" THEN TRUE
       ELSE \E i \in 1..Len(o.a) : ~HasSlice(o.a[i])

\* as OptionsOf, but the options are passed on whole
OptionsOfUntruncated(q) == Field(q, "options")

\* line 335
OptionsOf(q) ==
  LET o == Field(q, "options") IN
  IF ~CanRead(o) THEN Undef
  ELSE Arr([i \in 1..Len(o.a) |-> Slice(o.a[i], MaxOptionLen)])

\* line 340
Skipped(q) ==
  ~(/\ Truthy(Field(q, "question"))
    /\ Truthy(OptionsOf(q))
    /\ CanRead(Field(q, "correctOptionIndex")))

\* line 347 throws inside the inner try: the question has no slice method
QuestionThrows(q) == ~HasSlice(Field(q, "question"))

\* line 347
QuestionArg(q) ==
  LET sliced == Slice(Field(q, "question"), MaxQuestionLen) IN
  IF Truthy(sliced) THEN sliced ELSE Str(<<>>)

\* as PollCall, but the poll goes to one fixed chat
PollCallFixedChat(chatId, q) ==
  [op |-> "sendPoll", chatId |-> "chatA", question |-> QuestionArg(q),
   options |-> OptionsOf(q), type |-> "quiz",
   correct_option_id |-> Field(q, "correctOptionIndex"),
   explanation |-> Field(q, "explanation"), is_anonymous |-> FALSE]

\* lines 345-355
PollCall(chatId, q) ==
  [op |-> "sendPoll", chatId |-> chatId, question |-> QuestionArg(q),
   options |-> OptionsOf(q), type |-> "quiz",
   correct_option_id |-> Field(q, "correctOptionIndex"),
   explanation |-> Field(q, "explanation"), is_anonymous |-> FALSE]

(***************************************************************************)
(* Chat messages (bot.sendMessage calls) and the LLM call.                 *)
(***************************************************************************)
MissingContentMsg(chatId) ==
  [op |-> "sendMessage", chatId |-> chatId, kind |-> "missing-content"]
MissingModelMsg(chatId) ==
  [op |-> "sendMessage", chatId |-> chatId, kind |-> "missing-model-name"]
InvalidModelMsg(chatId) ==
  [op |-> "sendMessage", chatId |-> chatId, kind |-> "invalid-model-name"]
InvalidJsonMsg(chatId) ==
  [op |-> "sendMessage", chatId |-> chatId, kind |-> "invalid-json"]
GenerationErrorMsg(chatId) ==
  [op |-> "sendMessage", chatId |-> chatId, kind |-> "generation-error"]
\* lines 358-361: the message carries error.toString()
PollErrorMsg(chatId, error) ==
  [op |-> "sendMessage", chatId |-> chatId, kind |-> "poll-error",
   error |-> error]
\* lines 367-370
SummaryMsg(chatId, count) ==
  [op |-> "sendMessage", chatId |-> chatId, kind |-> "summary",
   count |-> count]
\* lines 380-384
HelpMsg(chatId) ==
  [op |-> "sendMessage", chatId |-> chatId, kind |-> "help",
   models |-> Join(supportedModels, <<",", " ">>)]
\* lines 267-293: the prompt embeds content
InvokeCall(client, content) ==
  [op |-> "invoke", provider |-> client.provider,
   modelName |-> client.modelName, temperature |-> client.temperature,
   content |-> content]

(***************************************************************************)
(* Inputs: inbound messages and LLM responses.                             *)
(***************************************************************************)
Runs == {"r1", "r2"}

Sp == <<" ">>
CommandTexts ==
  { <<>>,
    <<"h", "i">>,
    <<"h", "i">> \o Sp \o Trigger \o Sp \o Gpt4o \o Sp \o <<"a">>,
    Trigger,
    Trigger \o <<"x">>,
    Trigger \o Sp,
    Trigger \o Sp \o Sp,
    Trigger \o Sp \o Gpt4o,
    Trigger \o Sp \o Gpt4o \o Sp,
    Trigger \o Sp \o Sp \o <<"a">>,
    Trigger \o <<"\t">> \o Gpt4o \o Sp \o <<"a">>,
    Trigger \o Sp \o <<"z", "z">> \o Sp \o <<"a">>,
    Trigger \o Sp \o <<"g", "p", "t">> \o Sp \o <<"a">>,
    Trigger \o Sp \o Gpt4o \o Sp \o <<"a">> \o Sp \o <<"b">>,
    Trigger \o Sp \o <<"G", "P", "T", "-", "4", "o">> \o Sp \o <<"a">>,
    Trigger \o Sp \o O1Preview \o Sp \o <<"a">> \o Sp \o Sp \o <<"b">>,
    Trigger \o <<"x">> \o Sp \o Claude3Opus \o Sp \o <<"a">> }

NoMessage == [chatId |-> "none", hasText |-> FALSE, text |-> <<>>]
\* the messages of one chat: every command text, and a message without text
MessagesOf(chatId) ==
  {[chatId |-> chatId, hasText |-> TRUE, text |-> t] : t \in CommandTexts}
    \cup {[chatId |-> chatId, hasText |-> FALSE, text |-> <<>>]}

\* Inputs of the command-parsing phase: model-name tokens that are a registry
\* identifier in another letter case, a proper prefix or suffix of one, or
\* one with a letter added, and contents with single, doubled, leading and
\* trailing spaces and with a tab.
LowerSet == {LowerLetters[i] : i \in 1..Len(LowerLetters)}
UpperChar(c) ==
  IF c \in LowerSet
  THEN UpperLetters[CHOOSE i \in 1..Len(LowerLetters) : LowerLetters[i] = c]
  ELSE c
ToUpperCase(s) == [i \in 1..Len(s) |-> UpperChar(s[i])]

CaseVariants(id) == {id, ToUpperCase(id), <<UpperChar(id[1])>> \o Tail(id)}
Fragments(id) ==
  {SubSeq(id, 1, n) : n \in 1..(Len(id) - 1)}
    \cup {SubSeq(id, n, Len(id)) : n \in 2..Len(id)}
    \cup {id \o <<"x">>, <<"x">> \o id}
ParseTokens ==
  UNION {CaseVariants(supportedModels[i]) \cup Fragments(supportedModels[i]) :
           i \in 1..Len(supportedModels)}
    \cup {<<>>, <<"z", "z">>}
ParseContents ==
  { <<>>, <<"a">>, <<"a", " ", "b">>, <<"a", " ", " ", "b">>,
    <<"a", "\t", "b">>, <<" ", "a">>, <<"a", " ">> }
ParseTexts ==
  {Trigger \o Sp \o tok \o Sp \o c : tok \in ParseTokens, c \in ParseContents}
    \cup CommandTexts
    \cup { Trigger \o <<"\t", "y">> \o Sp \o Gpt4o \o Sp \o <<"a", " ", "b">>,
           Trigger \o Sp \o Gpt4o \o <<"\t", "a">> \o Sp \o <<"b">> }
ParseMessages(chatId) ==
  {[chatId |-> chatId, hasText |-> TRUE, text |-> t] : t \in ParseTexts}
    \cup {[chatId |-> chatId, hasText |-> FALSE, text |-> <<>>]}

Alphabet == {"[", "]", ",", " ", "p", "7", "sAB"}
SmallTexts == UNION {[1..n -> Alphabet] : n \in 0..MaxTextLen}

RecordLiterals ==
  { <<"{Q0e", "[", "sA", ",", "sB", "]", "}">>,
    <<"{R5", "[", "sA", ",", "sB", "]", "}">>,
    <<"{Q'1'", "[", "sA", "]", "}">>,
    <<"{_0", "[", "sA", "]", "}">>,
    <<"{Qn", "[", "sA", "]", "}">>,
    <<"{Q0e", "}">>,
    <<"{Q0e", "sAB", "}">>,
    <<"{Q0e", "[", "sA", ",", "7", "]", "}">>,
    <<"{7_0", "[", "sA", "]", "}">>,
    <<"null">>,
    <<"7">> }

\* the text of the array literal whose elements have the texts es
ArrayText(es) == <<"[">> \o Join(es, <<",">>) \o <<"]">>
RecordTexts ==
  {ArrayText(es) : es \in UNION {[1..n -> RecordLiterals] : n \in 0..MaxRecords}}

ProseBefore == {<<>>, <<"p", " ">>, <<"p", "[", "p", "]", " ">>, <<"]", " ">>}
ProseAfter == {<<>>, <<" ", "p">>, <<" ", "[", "p", "]">>, <<"[">>}
WrappedBodies ==
  { <<"[", "]">>,
    <<"[", "7", "]">>,
    <<"[", "[", "]", "]">>,
    ArrayText(<<<<"{Q0e", "[", "sA", ",", "sB", "]", "}">>>>) }

\* arrays with a record whose question and first option are longer than the
\* limits of lines 335 and 347
LongRecordTexts ==
  { ArrayText(<< <<"{L0", "[", "sLong", ",", "sA", "]", "}">> >>),
    ArrayText(<< <<"{L0", "[", "sLong", ",", "sA", "]", "}">>,
                 <<"{R5", "[", "sA", ",", "sB", "]", "}">> >>) }

\* a response: its content, and how its text splits into prose, body, prose
Response(pre, body, post) ==
  [content |-> StringContent(pre \o body \o post),
   pre |-> pre, body |-> body, post |-> post]
BlockResponse(blocks) ==
  [content |-> BlocksContent(blocks), pre |-> <<>>, body |-> <<>>,
   post |-> <<>>]
NoResponse == BlockResponse(<<>>)

Responses ==
  {Response(<<>>, t, <<>>) :
     t \in SmallTexts \cup RecordTexts \cup LongRecordTexts}
    \cup {Response(pre, b, post) :
            pre \in ProseBefore, b \in WrappedBodies, post \in ProseAfter}
    \cup { BlockResponse(<<>>),
           BlockResponse(<<[type |-> "text", text |-> <<"[", "7", "]">>]>>),
           BlockResponse(<<[type |-> "image", text |-> <<>>]>>) }

\* Inputs of two runs side by side: the messages of two chats, which between
\* them take every path of the parsing phase, and a few responses, which
\* between them take every path of the dispatch loop.
PairMessagesA ==
  {[chatId |-> "chatA", hasText |-> TRUE, text |-> t] :
     t \in { <<"h", "i">>, Trigger,
             Trigger \o Sp \o Gpt4o \o Sp \o <<"a", " ", "b">> }}
    \cup {[chatId |-> "chatA", hasText |-> FALSE, text |-> <<>>]}
PairMessagesB ==
  {[chatId |-> "chatB", hasText |-> TRUE, text |-> t] :
     t \in { Trigger \o Sp \o Gpt4o,
             Trigger \o Sp \o Sp \o <<"a">>,
             Trigger \o Sp \o <<"z", "z">> \o Sp \o <<"a">>,
             Trigger \o Sp \o Claude3Opus \o Sp \o <<"c">> }}
PairResponses ==
  {Response(<<>>, t, <<>>) :
     t \in { <<"p">>,
             <<"]", "7", "[">>,
             ArrayText(<< <<"{Q0e", "[", "sA", ",", "sB", "]", "}">>,
                          <<"{R5", "[", "sA", ",", "sB", "]", "}">> >>),
             ArrayText(<< <<"7">>, <<"{7_0", "[", "sA", "]", "}">> >>),
             ArrayText(<< <<"{Q0e", "[", "sA", ",", "sB", "]", "}">>,
                          <<"null">> >>) }}

(***************************************************************************)
(* State.                                                                  *)
(***************************************************************************)
VARIABLES
  msg,        \* msg[r]: the inbound message of run r
  pc,         \* pc[r]: where run r's handler stands
  resp,       \* resp[r]: the LLM response run r received
  questions,  \* questions[r]: the value JSON.parse returned
  idx,        \* idx[r]: the position of the for-of loop, 1-based
  calls,      \* calls[r]: the external calls run r issued, in order
  settled,    \* settled[r][k]: "pending", "fulfilled" or "rejected"
  pollDone,   \* pollDone[r]: the sendPoll calls in the order they completed
  logs,       \* logs[r]: the console.error lines of run r
  unhandled   \* the rejected promises no handler was attached to

vars ==
  <<msg, pc, resp, questions, idx, calls, settled, pollDone, logs, unhandled>>

\* the state after the platform delivered the messages ms[r]
InitWith(ms) ==
  /\ msg = ms
  /\ pc = [r \in Runs |-> IF ms[r] = NoMessage THEN "idle" ELSE "start"]
  /\ resp = [r \in Runs |-> NoResponse]
  /\ questions = [r \in Runs |-> Undef]
  /\ idx = [r \in Runs |-> 1]
  /\ calls = [r \in Runs |-> <<>>]
  /\ settled = [r \in Runs |-> <<>>]
  /\ pollDone = [r \in Runs |-> <<>>]
  /\ logs = [r \in Runs |-> <<>>]
  /\ unhandled = {}

\* one message, delivered to run r1
Init ==
  \E m \in MessagesOf("chatA") :
    InitWith([r \in Runs |-> IF r = "r1" THEN m ELSE NoMessage])

(***************************************************************************)
(* The handler, bot.on("message", ...) of index.ts 209-389, one action per *)
(* path between two suspension points.                                     *)
(***************************************************************************)
\* line 214: !msg.text is true of a missing text and of the empty string
TextPresent(m) == m.hasText /\ m.text # <<>>

\* the responses the LLM may give: the few of PairResponses when two runs
\* are under way, all of Responses when there is one
ResponsesOffered ==
  IF \A r \in Runs : msg[r] # NoMessage THEN PairResponses ELSE Responses

\* run r issues call c; the promise it returns is pending
Issue(r, c) ==
  /\ calls' = [calls EXCEPT ![r] = Append(@, c)]
  /\ settled' = [settled EXCEPT ![r] = Append(@, "pending")]

\* the call run r awaits (its last) settles as outcome, and r issues call c
SettleAndIssue(r, outcome, c) ==
  /\ calls' = [calls EXCEPT ![r] = Append(@, c)]
  /\ settled' = [settled EXCEPT
       ![r] = Append([@ EXCEPT ![Len(@)] = outcome], "pending")]

\* the call run r awaits settles as outcome
SettleAwaited(r, outcome) ==
  /\ settled' = [settled EXCEPT ![r] = [@ EXCEPT ![Len(@)] = outcome]]
  /\ UNCHANGED calls

Goto(r, label) == pc' = [pc EXCEPT ![r] = label]
Log(r, line) == logs' = [logs EXCEPT ![r] = Append(@, line)]

\* line 214: no text, ignore
IgnoreNoText(r) ==
  /\ pc[r] = "start"
  /\ ~TextPresent(msg[r])
  /\ Goto(r, "done")
  /\ UNCHANGED <<msg, resp, questions, idx, calls, settled, pollDone, logs,
                 unhandled>>

\* lines 378-385: the fallback help
SendHelp(r) ==
  /\ pc[r] = "start"
  /\ TextPresent(msg[r])
  /\ ~IsCommand(msg[r].text)
  /\ Issue(r, HelpMsg(msg[r].chatId))
  /\ Goto(r, "done")
  /\ UNCHANGED <<msg, resp, questions, idx, pollDone, logs, unhandled>>

\* line 221: numQsStr is undefined, numQsStr.split throws, caught at 386
SplitThrows(r) ==
  /\ pc[r] = "start"
  /\ TextPresent(msg[r])
  /\ IsCommand(msg[r].text)
  /\ ~NumQsStrDefined(msg[r].text)
  /\ Log(r, "Error processing message")
  /\ Goto(r, "done")
  /\ UNCHANGED <<msg, resp, questions, idx, calls, settled, pollDone,
                 unhandled>>

\* lines 225-231
RejectMissingContent(r) ==
  /\ pc[r] = "start"
  /\ TextPresent(msg[r])
  /\ IsCommand(msg[r].text)
  /\ NumQsStrDefined(msg[r].text)
  /\ ContentOf(msg[r].text) = <<>>
  /\ Issue(r, MissingContentMsg(msg[r].chatId))
  /\ Goto(r, "done")
  /\ UNCHANGED <<msg, resp, questions, idx, pollDone, logs, unhandled>>

\* lines 233-239
RejectMissingModel(r) ==
  /\ pc[r] = "start"
  /\ TextPresent(msg[r])
  /\ IsCommand(msg[r].text)
  /\ NumQsStrDefined(msg[r].text)
  /\ ContentOf(msg[r].text) # <<>>
  /\ ModelNameOf(msg[r].text) = <<>>
  /\ Issue(r, MissingModelMsg(msg[r].chatId))
  /\ Goto(r, "done")
  /\ UNCHANGED <<msg, resp, questions, idx, pollDone, logs, unhandled>>

\* lines 241-250
RejectInvalidModel(r) ==
  /\ pc[r] = "start"
  /\ TextPresent(msg[r])
  /\ IsCommand(msg[r].text)
  /\ NumQsStrDefined(msg[r].text)
  /\ ContentOf(msg[r].text) # <<>>
  /\ ModelNameOf(msg[r].text) # <<>>
  /\ ~FindModel(ModelNameOf(msg[r].text)).found
  /\ Issue(r, InvalidModelMsg(msg[r].chatId))
  /\ Goto(r, "done")
  /\ UNCHANGED <<msg, resp, questions, idx, pollDone, logs, unhandled>>

\* lines 252-293: the client is built and llm.invoke(prompt) is awaited
InvokeLlm(r) ==
  /\ pc[r] = "start"
  /\ TextPresent(msg[r])
  /\ IsCommand(msg[r].text)
  /\ NumQsStrDefined(msg[r].text)
  /\ ContentOf(msg[r].text) # <<>>
  /\ ModelNameOf(msg[r].text) # <<>>
  /\ FindModel(ModelNameOf(msg[r].text)).found
  /\ Issue(r, InvokeCall(LlmClient(FindModel(ModelNameOf(msg[r].text)).name),
                         ContentOf(msg[r].text)))
  /\ Goto(r, "awaitLlm")
  /\ UNCHANGED <<msg, resp, questions, idx, pollDone, logs, unhandled>>

\* as LlmRejects, but the failure is reported by the inner catch's message
LlmRejectsAsInvalidJson(r) ==
  /\ pc[r] = "awaitLlm"
  /\ SettleAndIssue(r, "rejected", InvalidJsonMsg(msg[r].chatId))
  /\ Log(r, "Failed to parse JSON from GPT")
  /\ Goto(r, "done")
  /\ UNCHANGED <<msg, resp, questions, idx, pollDone, unhandled>>

\* lines 293, 371-377: llm.invoke rejects, the outer catch reports it
LlmRejects(r) ==
  /\ pc[r] = "awaitLlm"
  /\ SettleAndIssue(r, "rejected", GenerationErrorMsg(msg[r].chatId))
  /\ Log(r, "Error creating MCQ via GPT")
  /\ Goto(r, "done")
  /\ UNCHANGED <<msg, resp, questions, idx, pollDone, unhandled>>

\* lines 305-328: the response cannot be extracted
LlmReturnsUnparseable(r) ==
  /\ pc[r] = "awaitLlm"
  /\ \E rs \in ResponsesOffered :
       /\ ~Extract(rs.content).ok
       /\ resp' = [resp EXCEPT ![r] = rs]
  /\ SettleAndIssue(r, "fulfilled", InvalidJsonMsg(msg[r].chatId))
  /\ Log(r, "Failed to parse JSON from GPT")
  /\ Goto(r, "done")
  /\ UNCHANGED <<msg, questions, idx, pollDone, unhandled>>

\* as LlmReturnsParsed, but questions is one variable of the module, which
\* every run writes and reads
LlmReturnsParsedShared(r) ==
  /\ pc[r] = "awaitLlm"
  /\ \E rs \in ResponsesOffered :
       /\ Extract(rs.content).ok
       /\ resp' = [resp EXCEPT ![r] = rs]
       /\ questions' = [q \in Runs |-> Extract(rs.content).val]
  /\ SettleAwaited(r, "fulfilled")
  /\ idx' = [idx EXCEPT ![r] = 1]
  /\ Goto(r, "loop")
  /\ UNCHANGED <<msg, pollDone, logs, unhandled>>

\* lines 305-319: questions = JSON.parse(jsonText)
LlmReturnsParsed(r) ==
  /\ pc[r] = "awaitLlm"
  /\ \E rs \in ResponsesOffered :
       /\ Extract(rs.content).ok
       /\ resp' = [resp EXCEPT ![r] = rs]
       /\ questions' = [questions EXCEPT ![r] = Extract(rs.content).val]
  /\ SettleAwaited(r, "fulfilled")
  /\ idx' = [idx EXCEPT ![r] = 1]
  /\ Goto(r, "loop")
  /\ UNCHANGED <<msg, pollDone, logs, unhandled>>

\* line 333 on a value that is not iterable: a TypeError, caught at 371
IterateThrows(r) ==
  /\ pc[r] = "loop"
  /\ ~Iterable(questions[r])
  /\ Issue(r, GenerationErrorMsg(msg[r].chatId))
  /\ Log(r, "Error creating MCQ via GPT")
  /\ Goto(r, "done")
  /\ UNCHANGED <<msg, resp, questions, idx, pollDone, unhandled>>

\* the loop stands before a record
AtRecord(r) ==
  /\ pc[r] = "loop"
  /\ Iterable(questions[r])
  /\ idx[r] <= LengthOf(questions[r])
CurrentRecord(r) == Elements(questions[r])[idx[r]]

\* lines 334-335 throw outside the inner try: caught at 371, the loop ends
RecordFails(r) ==
  /\ AtRecord(r)
  /\ RecordThrows(CurrentRecord(r))
  /\ Issue(r, GenerationErrorMsg(msg[r].chatId))
  /\ Log(r, "Error creating MCQ via GPT")
  /\ Goto(r, "done")
  /\ UNCHANGED <<msg, resp, questions, idx, pollDone, unhandled>>

\* line 340: continue
SkipRecord(r) ==
  /\ AtRecord(r)
  /\ ~RecordThrows(CurrentRecord(r))
  /\ Skipped(CurrentRecord(r))
  /\ idx' = [idx EXCEPT ![r] = @ + 1]
  /\ UNCHANGED <<msg, pc, resp, questions, calls, settled, pollDone, logs,
                 unhandled>>

\* line 347 throws inside the inner try: caught at 356, the loop goes on
QuestionFails(r) ==
  /\ AtRecord(r)
  /\ ~RecordThrows(CurrentRecord(r))
  /\ ~Skipped(CurrentRecord(r))
  /\ QuestionThrows(CurrentRecord(r))
  /\ Issue(r, PollErrorMsg(msg[r].chatId, "TypeError"))
  /\ Log(r, "Error sending poll")
  /\ idx' = [idx EXCEPT ![r] = @ + 1]
  /\ UNCHANGED <<msg, pc, resp, questions, pollDone, unhandled>>

\* as SendPoll, but the call is not awaited: the loop moves on at once
SendPollNotAwaited(r) ==
  /\ AtRecord(r)
  /\ ~RecordThrows(CurrentRecord(r))
  /\ ~Skipped(CurrentRecord(r))
  /\ ~QuestionThrows(CurrentRecord(r))
  /\ Issue(r, PollCall(msg[r].chatId, CurrentRecord(r)))
  /\ idx' = [idx EXCEPT ![r] = @ + 1]
  /\ UNCHANGED <<msg, pc, resp, questions, pollDone, logs, unhandled>>

\* lines 344-355: await bot.sendPoll(...)
SendPoll(r) ==
  /\ AtRecord(r)
  /\ ~RecordThrows(CurrentRecord(r))
  /\ ~Skipped(CurrentRecord(r))
  /\ ~QuestionThrows(CurrentRecord(r))
  /\ Issue(r, PollCall(msg[r].chatId, CurrentRecord(r)))
  /\ Goto(r, "awaitPoll")
  /\ UNCHANGED <<msg, resp, questions, idx, pollDone, logs, unhandled>>

\* the awaited sendPoll fulfils: the next record
PollFulfils(r) ==
  /\ pc[r] = "awaitPoll"
  /\ SettleAwaited(r, "fulfilled")
  /\ pollDone' = [pollDone EXCEPT ![r] = Append(@, Len(calls[r]))]
  /\ idx' = [idx EXCEPT ![r] = @ + 1]
  /\ Goto(r, "loop")
  /\ UNCHANGED <<msg, resp, questions, logs, unhandled>>

\* as PollRejects, but the failure ends the loop (no inner try, as when
\* the sendPoll call is not wrapped)
PollRejectsAborts(r) ==
  /\ pc[r] = "awaitPoll"
  /\ SettleAndIssue(r, "rejected", GenerationErrorMsg(msg[r].chatId))
  /\ pollDone' = [pollDone EXCEPT ![r] = Append(@, Len(calls[r]))]
  /\ Log(r, "Error creating MCQ via GPT")
  /\ Goto(r, "done")
  /\ UNCHANGED <<msg, resp, questions, idx, unhandled>>

\* lines 356-362: the awaited sendPoll rejects, the inner catch reports it
PollRejects(r) ==
  /\ pc[r] = "awaitPoll"
  /\ SettleAndIssue(r, "rejected", PollErrorMsg(msg[r].chatId, "Error"))
  /\ pollDone' = [pollDone EXCEPT ![r] = Append(@, Len(calls[r]))]
  /\ Log(r, "Error sending poll")
  /\ idx' = [idx EXCEPT ![r] = @ + 1]
  /\ Goto(r, "loop")
  /\ UNCHANGED <<msg, resp, questions, unhandled>>

\* lines 367-370: the loop is over
SendSummary(r) ==
  /\ pc[r] = "loop"
  /\ Iterable(questions[r])
  /\ idx[r] > LengthOf(questions[r])
  /\ Issue(r, SummaryMsg(msg[r].chatId, LengthOf(questions[r])))
  /\ Goto(r, "done")
  /\ UNCHANGED <<msg, resp, questions, idx, pollDone, logs, unhandled>>

(***************************************************************************)
(* The promise of a bot.sendMessage call: the handler neither awaits it    *)
(* nor attaches a handler to it (226, 234, 245, 323, 358, 367, 373, 380).  *)
(***************************************************************************)
PendingMessage(r, k) ==
  /\ k \in 1..Len(calls[r])
  /\ calls[r][k].op = "sendMessage"
  /\ settled[r][k] = "pending"

MessageFulfils(r) ==
  \E k \in 1..Len(calls[r]) :
    /\ PendingMessage(r, k)
    /\ settled' = [settled EXCEPT ![r] = [@ EXCEPT ![k] = "fulfilled"]]
    /\ UNCHANGED <<msg, pc, resp, questions, idx, calls, pollDone, logs,
                   unhandled>>

\* a rejection nothing handles: an unhandledRejection of the process
MessageRejects(r) ==
  \E k \in 1..Len(calls[r]) :
    /\ PendingMessage(r, k)
    /\ settled' = [settled EXCEPT ![r] = [@ EXCEPT ![k] = "rejected"]]
    /\ unhandled' = unhandled \cup {<<r, k>>}
    /\ UNCHANGED <<msg, pc, resp, questions, idx, calls, pollDone, logs>>

Next ==
  \E r \in Runs :
    \/ IgnoreNoText(r)
    \/ SendHelp(r)
    \/ SplitThrows(r)
    \/ RejectMissingContent(r)
    \/ RejectMissingModel(r)
    \/ RejectInvalidModel(r)
    \/ InvokeLlm(r)
    \/ LlmRejects(r)
    \/ LlmReturnsUnparseable(r)
    \/ LlmReturnsParsed(r)
    \/ IterateThrows(r)
    \/ RecordFails(r)
    \/ SkipRecord(r)
    \/ QuestionFails(r)
    \/ SendPoll(r)
    \/ PollFulfils(r)
    \/ PollRejects(r)
    \/ SendSummary(r)
    \/ MessageFulfils(r)
    \/ MessageRejects(r)

Spec == Init /\ [][Next]_vars

(***************************************************************************)
(* The command-parsing phase on its own (index.ts 209-293): one message    *)
(* drawn from ParseMessages, the handler up to the LLM call, which fails.  *)
(***************************************************************************)
InitParse ==
  \E m \in ParseMessages("chatA") :
    InitWith([r \in Runs |-> IF r = "r1" THEN m ELSE NoMessage])

NextParse ==
  \E r \in Runs :
    \/ IgnoreNoText(r)
    \/ SendHelp(r)
    \/ SplitThrows(r)
    \/ RejectMissingContent(r)
    \/ RejectMissingModel(r)
    \/ RejectInvalidModel(r)
    \/ InvokeLlm(r)
    \/ LlmRejects(r)
    \/ MessageFulfils(r)
    \/ MessageRejects(r)

SpecParse == InitParse /\ [][NextParse]_vars

(***************************************************************************)
(* Two messages from two chats, delivered together: the handler runs once  *)
(* for each, and the two runs interleave at their suspension points.       *)
(***************************************************************************)
InitPair ==
  \E a \in PairMessagesA, b \in PairMessagesB :
    InitWith([r \in Runs |-> IF r = "r1" THEN a ELSE b])

SpecPair == InitPair /\ [][Next]_vars

(***************************************************************************)
(* Vocabulary of the properties.                                           *)
(***************************************************************************)
IsPoll(c) == c.op = "sendPoll"
IsMessage(c) == c.op = "sendMessage"
IsInvoke(c) == c.op = "invoke"
IsMessageOf(c, kind) == IF c.op = "sendMessage" THEN c.kind = kind ELSE FALSE

\* the sendPoll calls of run r, in the order they were issued
Polls(r) == SelectSeq(calls[r], IsPoll)
IsSummary(c) == IsMessageOf(c, "summary")
IsPollError(c) == IsMessageOf(c, "poll-error")
IsInvalidJson(c) == IsMessageOf(c, "invalid-json")
\* the positions in calls[r] of the calls of one sort
PollPositions(r) == {k \in 1..Len(calls[r]) : IsPoll(calls[r][k])}
InvokePositions(r) == {k \in 1..Len(calls[r]) : IsInvoke(calls[r][k])}
SummaryPositions(r) == {k \in 1..Len(calls[r]) : IsSummary(calls[r][k])}
PollErrorPositions(r) == {k \in 1..Len(calls[r]) : IsPollError(calls[r][k])}

\* run r received the LLM's response
Responded(r) ==
  /\ calls[r] # <<>>
  /\ IsInvoke(calls[r][1])
  /\ settled[r][1] = "fulfilled"

\* a record with all three members present and of the expected shape: a
\* non-empty string, an array of strings, a number
WellFormed(q) ==
  IF q.ty # "object" THEN FALSE
  ELSE /\ q.question.ty = "string"
       /\ q.question.s # <<>>
       /\ q.options.ty = "array"
       /\ \A i \in 1..Len(q.options.a) : q.options.a[i].ty = "string"
       /\ q.correctOptionIndex.ty = "number"

\* a record that passes validation: a non-empty question string, an array of
\* option strings and a correctOptionIndex that is neither null nor absent
PassesValidation(q) ==
  IF q.ty # "object" THEN FALSE
  ELSE /\ q.question.ty = "string"
       /\ q.question.s # <<>>
       /\ q.options.ty = "array"
       /\ \A i \in 1..Len(q.options.a) : q.options.a[i].ty = "string"
       /\ q.correctOptionIndex.ty \notin {"null", "undefined"}

\* questions[r] is an array of records that pass validation
AllPass(r) ==
  IF questions[r].ty # "array" THEN FALSE
  ELSE \A i \in 1..Len(questions[r].a) : PassesValidation(questions[r].a[i])

IsPrefix(s, t) == Len(s) <= Len(t) /\ s = SubSeq(t, 1, Len(s))

\* C1: when all N records pass validation, the sendPoll attempts are those of
\* the records, in the records' order, N of them once the run is over; every
\* attempt that failed is followed at once by a chat message naming the
\* failure, and the attempts after it are still made.
C1_EveryRecordAttempted ==
  \A r \in Runs :
    AllPass(r) =>
      LET recs == questions[r].a
          expected == [i \in 1..Len(recs) |-> PollCall(msg[r].chatId, recs[i])]
      IN  /\ IsPrefix(Polls(r), expected)
          /\ pc[r] = "done" => Polls(r) = expected
          /\ \A k \in 1..Len(calls[r]) :
               (IsPoll(calls[r][k]) /\ settled[r][k] = "rejected") =>
                 /\ k < Len(calls[r])
                 /\ calls[r][k + 1] = PollErrorMsg(msg[r].chatId, "Error")
          /\ Cardinality(PollErrorPositions(r))
               = Cardinality({k \in PollPositions(r) :
                                settled[r][k] = "rejected"})

\* two records that pass validation, the first attempt failed, the second was made
C1_Witness ==
  \E r \in Runs :
    /\ AllPass(r)
    /\ Len(questions[r].a) = 2
    /\ pc[r] = "done"
    /\ Len(Polls(r)) = 2
    /\ settled[r][2] = "rejected"
    /\ IsPollError(calls[r][3])
    /\ IsPoll(calls[r][4])

\* the records of es that pass validation, in their order
RECURSIVE WellFormedOf(_)
WellFormedOf(es) ==
  IF es = <<>> THEN <<>>
  ELSE IF WellFormed(es[1]) THEN <<es[1]>> \o WellFormedOf(Tail(es))
  ELSE WellFormedOf(Tail(es))

\* C2: validation never fails as a whole: whatever the parsed array holds,
\* the run ends with the summary, the sendPoll attempts are exactly those of
\* the well-formed records, in order, and no message is sent for a record
\* that was dropped (the only other messages report failed attempts).
C2_ValidationNeverFails ==
  \A r \in Runs :
    (pc[r] = "done" /\ Responded(r) /\ questions[r].ty = "array") =>
      LET good == WellFormedOf(questions[r].a) IN
      /\ Polls(r) = [i \in 1..Len(good) |-> PollCall(msg[r].chatId, good[i])]
      /\ IsSummary(calls[r][Len(calls[r])])
      /\ \A k \in 2..(Len(calls[r]) - 1) :
           \/ IsPoll(calls[r][k])
           \/ /\ IsPollError(calls[r][k])
              /\ IsPoll(calls[r][k - 1])
              /\ settled[r][k - 1] = "rejected"

\* C3: the summary reports the number of sendPoll attempts of the run.
C3_SummaryCountsAttempts ==
  \A r \in Runs :
    (pc[r] = "done" /\ Responded(r) /\ questions[r].ty = "array") =>
      \A k \in SummaryPositions(r) :
        /\ k = Len(calls[r])
        /\ calls[r][k].count = Len(Polls(r))

\* the response text has no "[", or no "]", or its first "[" comes after
\* its last "]"
BracketsUnusable(text) ==
  \/ \A i \in 1..Len(text) : text[i] # "["
  \/ \A i \in 1..Len(text) : text[i] # "]"
  \/ \E i \in 1..Len(text) :
       /\ text[i] = "["
       /\ \A j \in 1..Len(text) :
            /\ text[j] = "[" => i <= j
            /\ text[j] = "]" => j < i

\* C4: a response text whose brackets are unusable makes extraction fail:
\* once the run is over, it has sent the invalid-JSON message and nothing
\* else (no poll, no summary, no other error message).
C4_UnusableBracketsFail ==
  \A r \in Runs :
    (/\ pc[r] = "done"
     /\ Responded(r)
     /\ resp[r].content.kind = "string"
     /\ BracketsUnusable(resp[r].content.text)) =>
      SubSeq(calls[r], 2, Len(calls[r])) = <<InvalidJsonMsg(msg[r].chatId)>>

\* the response of run r is prose + A + prose, A the text of a JSON array
WrapsArray(r) ==
  /\ Responded(r)
  /\ resp[r].content.kind = "string"
  /\ resp[r].body # <<>>
  /\ resp[r].body[1] = "["
  /\ resp[r].body[Len(resp[r].body)] = "]"
  /\ JsonParse(resp[r].body).ok

\* the prose before holds no "[" and the prose after no "]"
ProseBracketFree(r) ==
  /\ \A i \in 1..Len(resp[r].pre) : resp[r].pre[i] # "["
  /\ \A i \in 1..Len(resp[r].post) : resp[r].post[i] # "]"

\* C5 as stated: whatever the prose around it, the array A is recovered.
C5_AnyProse ==
  \A r \in Runs :
    WrapsArray(r) =>
      /\ ~(\E k \in 1..Len(calls[r]) : IsInvalidJson(calls[r][k]))
      /\ questions[r] = JsonParse(resp[r].body).val

\* C5, amended: when the prose before the array holds no "[" and the prose
\* after it no "]", extraction succeeds and recovers exactly the array A.
C5_BracketFreeProse ==
  \A r \in Runs :
    (WrapsArray(r) /\ ProseBracketFree(r)) =>
      /\ ~(\E k \in 1..Len(calls[r]) : IsInvalidJson(calls[r][k]))
      /\ questions[r] = JsonParse(resp[r].body).val

\* a one-record array between two pieces of prose was recovered
C5_Witness ==
  \E r \in Runs :
    /\ WrapsArray(r)
    /\ ProseBracketFree(r)
    /\ resp[r].pre # <<>>
    /\ resp[r].post # <<>>
    /\ questions[r].ty = "array"
    /\ Len(questions[r].a) = 1
    /\ WellFormed(questions[r].a[1])
    /\ Len(Polls(r)) = 1

\* C6: a command with empty content gets the missing-content message and
\* nothing else; a command with content and an empty model-name token gets
\* the missing-model-name message and nothing else.
C6_DistinctSignals ==
  \A r \in Runs :
    (pc[r] = "done" /\ TextPresent(msg[r]) /\ StartsWith(msg[r].text, Trigger)) =>
      /\ ContentOf(msg[r].text) = <<>> =>
           calls[r] = <<MissingContentMsg(msg[r].chatId)>>
      /\ (ContentOf(msg[r].text) # <<>> /\ ModelNameOf(msg[r].text) = <<>>) =>
           calls[r] = <<MissingModelMsg(msg[r].chatId)>>

\* the token equals no registry identifier, letter case aside
NoRegistryEntry(token) ==
  \A i \in 1..Len(supportedModels) :
    ToLowerCase(supportedModels[i]) # ToLowerCase(token)

\* every LLM invocation is the first call of its run and names a registry
\* identifier that the command's token resolves to
InvokeAfterResolution(r) ==
  \A k \in InvokePositions(r) :
    /\ k = 1
    /\ \E i \in 1..Len(supportedModels) :
         /\ calls[r][k].modelName = supportedModels[i]
         /\ ~NoRegistryEntry(ModelNameOf(msg[r].text))

\* C7 as stated: a command with content whose token matches no registry
\* entry gets the invalid-model message and nothing else.
C7_AnyUnmatchedToken ==
  \A r \in Runs :
    (/\ pc[r] = "done"
     /\ TextPresent(msg[r])
     /\ StartsWith(msg[r].text, Trigger)
     /\ ContentOf(msg[r].text) # <<>>
     /\ NoRegistryEntry(ModelNameOf(msg[r].text))) =>
      calls[r] = <<InvalidModelMsg(msg[r].chatId)>>

\* C7, amended: a command with content whose non-empty token matches no
\* registry entry gets the invalid-model message and nothing else (no LLM
\* invocation, no sendPoll); and an LLM invocation is always preceded by a
\* successful model resolution.
C7_ResolutionBeforeInvoke ==
  \A r \in Runs :
    /\ InvokeAfterResolution(r)
    /\ (/\ pc[r] = "done"
        /\ TextPresent(msg[r])
        /\ StartsWith(msg[r].text, Trigger)
        /\ ContentOf(msg[r].text) # <<>>
        /\ ModelNameOf(msg[r].text) # <<>>
        /\ NoRegistryEntry(ModelNameOf(msg[r].text))) =>
         calls[r] = <<InvalidModelMsg(msg[r].chatId)>>

\* a command whose token is a proper prefix of a registry identifier was
\* turned down
C7_Witness ==
  \E r \in Runs :
    /\ pc[r] = "done"
    /\ StartsWith(msg[r].text, Trigger)
    /\ ContentOf(msg[r].text) # <<>>
    /\ ModelNameOf(msg[r].text) = <<"g", "p", "t">>
    /\ calls[r] = <<InvalidModelMsg(msg[r].chatId)>>

\* the run sent the help message, which lists every registry name, and
\* made no other call
OnlyHelp(r) ==
  /\ Len(calls[r]) = 1
  /\ IsMessageOf(calls[r][1], "help")
  /\ calls[r][1].chatId = msg[r].chatId
  /\ \A i \in 1..Len(supportedModels) :
       Includes(calls[r][1].models, supportedModels[i])

\* C8 as stated: every text that does not start with the trigger gets the
\* help message, once, and nothing else.
C8_AnyText ==
  \A r \in Runs :
    (pc[r] = "done" /\ msg[r].hasText /\ ~StartsWith(msg[r].text, Trigger)) =>
      OnlyHelp(r)

\* C8, amended: every non-empty text that does not start with the trigger
\* gets the help message, once, and nothing else.
C8_HelpForNonCommands ==
  \A r \in Runs :
    (/\ pc[r] = "done"
     /\ msg[r].hasText
     /\ msg[r].text # <<>>
     /\ ~StartsWith(msg[r].text, Trigger)) =>
      OnlyHelp(r)

\* a text that holds the trigger, but not at its start, got the help message
C8_Witness ==
  \E r \in Runs :
    /\ pc[r] = "done"
    /\ Includes(msg[r].text, Trigger)
    /\ ~StartsWith(msg[r].text, Trigger)
    /\ OnlyHelp(r)

\* the records of es the loop sends a poll for, up to the first record that
\* makes it throw
RECURSIVE Dispatched(_)
Dispatched(es) ==
  IF es = <<>> THEN <<>>
  ELSE IF RecordThrows(es[1]) THEN <<>>
  ELSE IF Skipped(es[1]) \/ QuestionThrows(es[1]) THEN Dispatched(Tail(es))
  ELSE <<es[1]>> \o Dispatched(Tail(es))

\* C9: at most one sendPoll of a run is in flight, a sendPoll is issued only
\* when every earlier one of the run has completed, the polls complete in
\* the order they were issued, and they are issued in the order of the
\* validated questions.
C9_SequentialDispatch ==
  \A r \in Runs :
    LET polls == PollPositions(r) IN
    /\ Cardinality({k \in polls : settled[r][k] = "pending"}) <= 1
    /\ \A j, k \in polls :
         (j < k) => settled[r][j] # "pending"
    /\ \A i \in 1..Len(pollDone[r]) :
         /\ pollDone[r][i] \in polls
         /\ settled[r][pollDone[r][i]] # "pending"
         /\ \A j \in 1..(i - 1) : pollDone[r][j] < pollDone[r][i]
    /\ Len(pollDone[r]) = Cardinality({k \in polls : settled[r][k] # "pending"})
    /\ Iterable(questions[r]) =>
         LET sent == Dispatched(Elements(questions[r])) IN
         IsPrefix(Polls(r),
                  [i \in 1..Len(sent) |-> PollCall(msg[r].chatId, sent[i])])

\* two polls completed, one after the other, and the run is over
C9_Witness ==
  \E r \in Runs :
    /\ pc[r] = "done"
    /\ Len(pollDone[r]) = 2
    /\ pollDone[r][1] < pollDone[r][2]
    /\ Polls(r)[1] # Polls(r)[2]

\* C10: no failure of an external call becomes an unhandled rejection.
C10_NothingEscapes == unhandled = {}

\* C11: a run started by a message with non-empty text does not end without
\* having issued at least one chat message (help, an error, or the summary).
C11_AlwaysAnswered ==
  \A r \in Runs :
    (pc[r] = "done" /\ msg[r].hasText /\ msg[r].text # <<>>) =>
      \E k \in 1..Len(calls[r]) : IsMessage(calls[r][k])

\* a and b are the same string, letter case aside
SameUpToCase(a, b) ==
  /\ Len(a) = Len(b)
  /\ \A i \in 1..Len(a) :
       \/ a[i] = b[i]
       \/ UpperChar(a[i]) = b[i]
       \/ a[i] = UpperChar(b[i])

\* the handler of run r went past the parsing of a command with content
ParsedCommand(r) ==
  /\ pc[r] \notin {"idle", "start"}
  /\ TextPresent(msg[r])
  /\ StartsWith(msg[r].text, Trigger)
  /\ NumQsStrDefined(msg[r].text)
  /\ ContentOf(msg[r].text) # <<>>

\* the registry entries the model-name token of run r equals up to case
RegistryHits(r) ==
  {i \in 1..Len(supportedModels) :
     SameUpToCase(ModelNameOf(msg[r].text), supportedModels[i])}

\* C12: the model lookup is a case-insensitive exact match.  A token that
\* equals a registry identifier up to letter case resolves to that one
\* identifier, in the registry's spelling (the LLM call names it); a token
\* that equals none, a proper prefix or suffix of an identifier included,
\* resolves to nothing: no LLM call is made, and a non-empty token gets the
\* invalid-model message.
C12_CaseInsensitiveExact ==
  \A r \in Runs :
    ParsedCommand(r) =>
      LET hits == RegistryHits(r) IN
      /\ Cardinality(hits) <= 1
      /\ \A i \in hits :
           /\ IsInvoke(calls[r][1])
           /\ calls[r][1].modelName = supportedModels[i]
      /\ hits = {} =>
           /\ InvokePositions(r) = {}
           /\ ModelNameOf(msg[r].text) # <<>> =>
                calls[r] = <<InvalidModelMsg(msg[r].chatId)>>

\* a token in capitals resolved to the registry's lower-case identifier
C12_Witness ==
  \E r \in Runs :
    /\ ParsedCommand(r)
    /\ ModelNameOf(msg[r].text) = ToUpperCase(Claude3Opus)
    /\ ModelNameOf(msg[r].text) # Claude3Opus
    /\ IsInvoke(calls[r][1])
    /\ calls[r][1].modelName = Claude3Opus

(***************************************************************************)
(* The handler as a function: the calls one run makes when it runs alone,  *)
(* given its message, the outcome of its LLM call (llm, with the response  *)
(* rs when it fulfilled) and the outcomes outs of its sendPoll calls, in   *)
(* order.  The sequence stops at the first call whose outcome is not given.*)
(***************************************************************************)
RECURSIVE SoloLoop(_, _, _, _)
\* lines 333-370, es being the records still to visit
SoloLoop(chatId, es, outs, count) ==
  IF es = <<>> THEN <<SummaryMsg(chatId, count)>>
  ELSE IF RecordThrows(es[1]) THEN <<GenerationErrorMsg(chatId)>>
  ELSE IF Skipped(es[1]) THEN SoloLoop(chatId, Tail(es), outs, count)
  ELSE IF QuestionThrows(es[1])
  THEN <<PollErrorMsg(chatId, "TypeError")>>
         \o SoloLoop(chatId, Tail(es), outs, count)
  ELSE IF outs = <<>> THEN <<PollCall(chatId, es[1])>>
  ELSE IF outs[1] = "fulfilled"
  THEN <<PollCall(chatId, es[1])>>
         \o SoloLoop(chatId, Tail(es), Tail(outs), count)
  ELSE <<PollCall(chatId, es[1]), PollErrorMsg(chatId, "Error")>>
         \o SoloLoop(chatId, Tail(es), Tail(outs), count)

\* lines 305-377, after the LLM call fulfilled with response rs
SoloAfterResponse(chatId, rs, outs) ==
  IF ~Extract(rs.content).ok THEN <<InvalidJsonMsg(chatId)>>
  ELSE LET v == Extract(rs.content).val IN
       IF ~Iterable(v) THEN <<GenerationErrorMsg(chatId)>>
       ELSE SoloLoop(chatId, Elements(v), outs, LengthOf(v))

\* lines 209-389
SoloCalls(m, llm, rs, outs) ==
  IF ~TextPresent(m) THEN <<>>
  ELSE IF ~IsCommand(m.text) THEN <<HelpMsg(m.chatId)>>
  ELSE IF ~NumQsStrDefined(m.text) THEN <<>>
  ELSE IF ContentOf(m.text) = <<>> THEN <<MissingContentMsg(m.chatId)>>
  ELSE IF ModelNameOf(m.text) = <<>> THEN <<MissingModelMsg(m.chatId)>>
  ELSE IF ~FindModel(ModelNameOf(m.text)).found
  THEN <<InvalidModelMsg(m.chatId)>>
  ELSE LET invoke == InvokeCall(LlmClient(FindModel(ModelNameOf(m.text)).name),
                                ContentOf(m.text))
       IN  IF llm = "pending" THEN <<invoke>>
           ELSE IF llm = "rejected"
           THEN <<invoke, GenerationErrorMsg(m.chatId)>>
           ELSE <<invoke>> \o SoloAfterResponse(m.chatId, rs, outs)

\* the outcome of run r's LLM call and of its sendPoll calls so far
LlmOutcome(r) ==
  IF calls[r] # <<>> /\ IsInvoke(calls[r][1]) THEN settled[r][1] ELSE "pending"
PollOutcomes(r) ==
  [i \in 1..Len(pollDone[r]) |-> settled[r][pollDone[r][i]]]

\* C13: runs share no mutable state.  Whatever the other run does in
\* between, the calls a run has made, with their arguments, are those it
\* makes alone on the same message, the same LLM outcome and response and
\* the same sendPoll outcomes: a prefix of them while the run is between two
\* suspension points, all of them when it is suspended or over.
C13_RunsIndependent ==
  \A r \in Runs :
    LET solo == SoloCalls(msg[r], LlmOutcome(r), resp[r], PollOutcomes(r)) IN
    /\ IsPrefix(calls[r], solo)
    /\ pc[r] \in {"awaitLlm", "awaitPoll", "done"} => calls[r] = solo

\* the two runs are both in the middle of their loops: each has had one
\* sendPoll completed and awaits its second, and their responses differ
C13_Witness ==
  /\ \A r \in Runs : pc[r] = "awaitPoll" /\ Len(pollDone[r]) = 1
  /\ msg["r1"].chatId # msg["r2"].chatId
  /\ calls["r1"][1].content # calls["r2"][1].content
  /\ settled["r1"][2] # settled["r2"][2]

\* C14: every sendPoll carries a question of at most 200 characters and
\* options of at most 100 characters each; the question is the prefix of the
\* record's question and each option the prefix of the record's option at
\* the same position, cut only when longer than the limit; the options are
\* as many as the record's, in its order; and a record that passes
\* validation gets its sendPoll however long its texts are.
C14_TruncatedNotRejected ==
  \A r \in Runs :
    (Responded(r) /\ Iterable(questions[r])) =>
      LET sent == Dispatched(Elements(questions[r])) IN
      /\ \A i \in 1..Len(Polls(r)) :
           LET p == Polls(r)[i]
               q == sent[i]
           IN  /\ Len(p.question.s) = Min(200, Len(q.question.s))
               /\ IsPrefix(p.question.s, q.question.s)
               /\ Len(p.options.a) = Len(q.options.a)
               /\ \A j \in 1..Len(p.options.a) :
                    /\ Len(p.options.a[j].s) = Min(100, Len(q.options.a[j].s))
                    /\ IsPrefix(p.options.a[j].s, q.options.a[j].s)
      /\ (pc[r] = "done" /\ AllPass(r)) => Len(Polls(r)) = Len(questions[r].a)

\* a record with a question of 201 characters and an option of 101 was sent
\* as a poll with a question of 200 characters and an option of 100
C14_Witness ==
  \E r \in Runs :
    /\ pc[r] = "done"
    /\ AllPass(r)
    /\ \E i \in 1..Len(Polls(r)) :
         /\ Len(questions[r].a[i].question.s) = 201
         /\ Len(questions[r].a[i].options.a[1].s) = 101
         /\ Len(Polls(r)[i].question.s) = 200
         /\ Len(Polls(r)[i].options.a[1].s) = 100
         /\ Len(Polls(r)[i].options.a) = 2

\* the records of es that have a question, an options array and a
\* correctOptionIndex that is not null, in their order
RECURSIVE WithAllThree(_)
WithAllThree(es) ==
  IF es = <<>> THEN <<>>
  ELSE IF PassesValidation(es[1]) THEN <<es[1]>> \o WithAllThree(Tail(es))
  ELSE WithAllThree(Tail(es))

\* C15: once the run is over, every record of the parsed array that has a
\* question, an options array and a non-null correctOptionIndex has had
\* exactly one sendPoll, in the records' order, of type quiz, not anonymous,
\* with the record's correctOptionIndex and explanation as they are.
C15_IndexPassedThrough ==
  \A r \in Runs :
    (pc[r] = "done" /\ Responded(r) /\ questions[r].ty = "array") =>
      LET recs == WithAllThree(questions[r].a) IN
      /\ Len(Polls(r)) = Len(recs)
      /\ \A i \in 1..Len(recs) :
           /\ Polls(r)[i].type = "quiz"
           /\ Polls(r)[i].is_anonymous = FALSE
           /\ Polls(r)[i].correct_option_id = recs[i].correctOptionIndex
           /\ Polls(r)[i].explanation = recs[i].explanation

\* the LLM call of run r failed
LlmFailed(r) ==
  /\ calls[r] # <<>>
  /\ IsInvoke(calls[r][1])
  /\ settled[r][1] = "rejected"

\* C16: when the LLM call fails, the run is over and has sent one message,
\* the generation-error message, which is not the invalid-JSON message; it
\* has sent no poll and no summary.
C16_LlmFailureReported ==
  \A r \in Runs :
    LlmFailed(r) =>
      /\ pc[r] = "done"
      /\ Len(calls[r]) = 2
      /\ IsMessageOf(calls[r][2], "generation-error")
      /\ calls[r][2].chatId = msg[r].chatId
      /\ ~IsInvalidJson(calls[r][2])
      /\ PollPositions(r) = {}
      /\ SummaryPositions(r) = {}

\* the LLM call failed and the message reporting it was delivered
C16_Witness ==
  \E r \in Runs :
    /\ LlmFailed(r)
    /\ Len(calls[r]) = 2
    /\ IsMessage(calls[r][2])
    /\ settled[r][2] = "fulfilled"

\* run r made no call that belongs to the processing of a command: no LLM
\* call, no sendPoll, and no message about the model name or the content
NotProcessed(r) ==
  /\ InvokePositions(r) = {}
  /\ PollPositions(r) = {}
  /\ \A k \in 1..Len(calls[r]) : IsMessageOf(calls[r][k], "help")

\* C17 as stated: a message whose first space-delimited token is not the
\* trigger is not processed as a command.
C17_KeywordEqualsTrigger ==
  \A r \in Runs :
    (msg[r].hasText /\ Split(msg[r].text)[1] # Trigger) => NotProcessed(r)

\* C17, amended: a message whose text does not start with the trigger is not
\* processed as a command (no model selection, no LLM call, no sendPoll);
\* one whose first token merely begins with the trigger is: with a
\* registry model name and content after it, the LLM is called.
C17_TextStartsWithTrigger ==
  \A r \in Runs :
    /\ (msg[r].hasText /\ ~StartsWith(msg[r].text, Trigger)) => NotProcessed(r)
    /\ \/ calls[r] # <<>> /\ IsInvoke(calls[r][1])
       \/ ~(/\ ParsedCommand(r)
             /\ Split(msg[r].text)[1] # Trigger
             /\ RegistryHits(r) # {})

\* a text that names the trigger and a registry model, but does not start
\* with the trigger, was answered and not processed
C17_Witness ==
  \E r \in Runs :
    /\ pc[r] = "done"
    /\ TextPresent(msg[r])
    /\ ~StartsWith(msg[r].text, Trigger)
    /\ Includes(msg[r].text, Trigger \o Sp \o Gpt4o)
    /\ calls[r] # <<>>
    /\ NotProcessed(r)

RECURSIVE TokenEnd(_, _, _)
\* the first position from i on that holds a separator, Len(t) + 1 if none
TokenEnd(t, i, seps) ==
  IF i > Len(t) THEN Len(t) + 1
  ELSE IF t[i] \in seps THEN i
  ELSE TokenEnd(t, i + 1, seps)

\* what is left of t after its first two tokens and the separator that
\* follows each of them
RemainderAfterTwo(t, seps) ==
  LET e1 == TokenEnd(t, 1, seps)
      e2 == TokenEnd(t, e1 + 1, seps)
  IN  SubSeq(t, e2 + 1, Len(t))

Whitespace == {" ", "\t"}

\* C18 as stated: the content given to the LLM is what is left of the message
\* after its first two whitespace-delimited tokens, unaltered.
C18_AnyWhitespace ==
  \A r \in Runs :
    \A k \in InvokePositions(r) :
      calls[r][k].content = RemainderAfterTwo(msg[r].text, Whitespace)

\* C18, amended: the content given to the LLM is what is left of the message
\* after its first two space-delimited tokens, unaltered: splitting at
\* spaces and rejoining with single spaces is a round trip on it, doubled,
\* leading and trailing spaces and tabs included.
C18_SpaceDelimited ==
  \A r \in Runs :
    \A k \in InvokePositions(r) :
      calls[r][k].content = RemainderAfterTwo(msg[r].text, {" "})

\* a content with a doubled space reached the LLM as it was
C18_Witness ==
  \E r \in Runs :
    /\ InvokePositions(r) # {}
    /\ calls[r][1].content = <<"a", " ", " ", "b">>
    /\ Len(msg[r].text) > Len(calls[r][1].content)
    /\ SubSeq(msg[r].text, Len(msg[r].text) - 3, Len(msg[r].text))
         = calls[r][1].content

\* C19: every sendMessage and sendPoll of a run goes to the chat of the
\* message that started the run, however the runs of two chats interleave;
\* and a message without text causes no call at all (no chat send, no LLM
\* call).
C19_RepliesToOwnChat ==
  \A r \in Runs :
    /\ \A k \in 1..Len(calls[r]) :
         (IsMessage(calls[r][k]) \/ IsPoll(calls[r][k])) =>
           calls[r][k].chatId = msg[r].chatId
    /\ ~msg[r].hasText => calls[r] = <<>>

\* two runs from two chats are over, and each sent a poll and a message to
\* its own chat
C19_Witness ==
  /\ msg["r1"].chatId # msg["r2"].chatId
  /\ \A r \in Runs :
       /\ pc[r] = "done"
       /\ PollPositions(r) # {}
       /\ \A k \in PollPositions(r) : calls[r][k].chatId = msg[r].chatId
       /\ IsMessage(calls[r][Len(calls[r])])
       /\ calls[r][Len(calls[r])].chatId = msg[r].chatId

\* a message without text was delivered next to a command, and its run is
\* over without a call
C19_NoTextWitness ==
  \E r, o \in Runs :
    /\ ~msg[r].hasText
    /\ pc[r] = "done"
    /\ calls[r] = <<>>
    /\ InvokePositions(o) # {}

====
